---------------------------- MODULE Spec2Model ----------------------------
(***************************************************************************)
(* Model of the data-pack builder of briefing-builder                      *)
(* (backend/src/services/data_pack_builder.py) together with the two       *)
(* read-only collaborators it queries: the series registry                 *)
(* (repositories/series.py) and the observation store                      *)
(* (services/series_service.py).                                           *)
(*                                                                         *)
(* Conventions                                                             *)
(*  - Python's None is the empty sequence <<>>, a present value x is <<x>>.*)
(*  - A float is an integer count of 1/FixedScale units (4 decimals), so   *)
(*    round(x, 4) of a sum or difference of inputs is exact and            *)
(*    round(mean(w), 4) is a rounded integer division.                     *)
(*  - A date is a record [y, m, d]; date.isoformat() is the tuple          *)
(*    <<y, m, d>> (the digits of "YYYY-MM-DD").                            *)
(*  - A raised exception is a result record with raised = TRUE.            *)
(***************************************************************************)
EXTENDS Integers, Sequences, FiniteSets, TLC

VARIABLES
    economic_data_sources,  \* registry table (set of configuration rows)
    ons_economic_series,    \* ONS observation table (set of rows)
    oecd_economic_series,   \* OECD observation table (set of rows)
    clock,                  \* [today |-> date, instant |-> Nat]
    request,                \* arguments of the last build_data_pack call
    called_at,              \* the clock that call read
    pack,                   \* what the last build_data_pack call returned
    entries,                \* arguments of a direct call of the two evaluators
    evaluation,             \* what _derive_stats and _quality_checks returned
    briefings,              \* briefings table: id -> row
    briefing_versions,      \* briefing_versions table: id -> row
    briefing_chat,          \* briefing_chat table (set of rows)
    calls                   \* the service calls in progress or finished

builder_vars == <<economic_data_sources, ons_economic_series, oecd_economic_series,
                  clock, request, called_at, pack>>

evaluator_vars == <<entries, evaluation>>

briefing_vars == <<briefings, briefing_versions, briefing_chat, calls>>

vars == <<builder_vars, evaluator_vars, briefing_vars>>

-----------------------------------------------------------------------------
(* Option values *)

None == <<>>

Some(x) == <<x>>

IsNone(o) == o = <<>>

Get(o) == o[1]

\* Python's `a or b` on optional strings: None and "" are both falsy.
OrElse(a, b) == IF a = "" THEN b ELSE a

Min2(a, b) == IF a < b THEN a ELSE b

Max2(a, b) == IF a > b THEN a ELSE b

-----------------------------------------------------------------------------
(* Calendar arithmetic of datetime.date *)

IsLeap(y) == (y % 4 = 0) /\ ((y % 100 # 0) \/ (y % 400 = 0))

DaysInMonth(y, m) ==
    IF m = 2 THEN (IF IsLeap(y) THEN 29 ELSE 28)
    ELSE IF m \in {4, 6, 9, 11} THEN 30 ELSE 31

\* Days of the year before the first of month m.
DaysBeforeMonth(y, m) ==
    <<0, 31, 59, 90, 120, 151, 181, 212, 243, 273, 304, 334>>[m]
    + (IF m > 2 /\ IsLeap(y) THEN 1 ELSE 0)

DaysBeforeYear(y) ==
    (y - 1) * 365 + ((y - 1) \div 4) - ((y - 1) \div 100) + ((y - 1) \div 400)

\* date.toordinal(); (a - b).days = ToOrdinal(a) - ToOrdinal(b)
ToOrdinal(dt) == DaysBeforeYear(dt.y) + DaysBeforeMonth(dt.y, dt.m) + dt.d

DaysBetween(later, earlier) == ToOrdinal(later) - ToOrdinal(earlier)

\* a < b on dates
DateLess(a, b) ==
    \/ a.y < b.y
    \/ (a.y = b.y /\ (a.m < b.m \/ (a.m = b.m /\ a.d < b.d)))

\* date.isoformat(): "YYYY-MM-DD"
IsoFormat(dt) == <<dt.y, dt.m, dt.d>>

MkDate(y, m, d) == [y |-> y, m |-> m, d |-> d]

\* The month that lies n months before month (y, m), as <<year, month>>.
MonthsBack(y, m, n) ==
    LET idx == y * 12 + (m - 1) - n
    IN  <<idx \div 12, (idx % 12) + 1>>

-----------------------------------------------------------------------------
(* Period labels.  A label is a record [kind, y, m, d]:                    *)
(*   kind "iso"   "YYYY-MM-DD"                                             *)
(*   kind "ym"    "YYYY-MM"    (d = 0)                                     *)
(*   kind "text"  a string no parser accepts, e.g. "n/a" (y = m = d = 0)   *)
(*   kind "empty" the empty string                                         *)

IsoLabel(y, m, d) == [kind |-> "iso", y |-> y, m |-> m, d |-> d]

YmLabel(y, m) == [kind |-> "ym", y |-> y, m |-> m, d |-> 0]

TextLabel == [kind |-> "text", y |-> 0, m |-> 0, d |-> 0]

EmptyLabel == [kind |-> "empty", y |-> 0, m |-> 0, d |-> 0]

\* Rank of the label as a string: "" < digits < letters, and "YYYY-MM" is a
\* proper prefix of "YYYY-MM-DD" (d = 0 sorts first).
LabelKey(l) ==
    IF l.kind = "empty" THEN 0
    ELSE IF l.kind = "text" THEN 200000000
    ELSE 100000000 + l.y * 10000 + l.m * 100 + l.d

LabelLess(a, b) == LabelKey(a) < LabelKey(b)

\* _parse_period.  date.fromisoformat accepts only the full calendar date;
\* the dateutil fallback accepts "YYYY-MM" and takes the missing day from
\* the current date, clamped to the length of the month.
ParsePeriod(period_label, today) ==
    IF period_label.kind = "empty" THEN None
    ELSE IF period_label.kind = "iso"
         THEN Some(MkDate(period_label.y, period_label.m, period_label.d))
    ELSE IF period_label.kind = "ym"
         THEN Some(MkDate(period_label.y, period_label.m,
                          Min2(today.d, DaysInMonth(period_label.y, period_label.m))))
    ELSE None

-----------------------------------------------------------------------------
(* Sequences helpers *)

RECURSIVE SumSeq(_)
SumSeq(s) == IF s = <<>> THEN 0 ELSE Head(s) + SumSeq(Tail(s))

RECURSIVE MinSeq(_)
MinSeq(s) == IF Len(s) = 1 THEN s[1] ELSE Min2(Head(s), MinSeq(Tail(s)))

RECURSIVE MaxSeq(_)
MaxSeq(s) == IF Len(s) = 1 THEN s[1] ELSE Max2(Head(s), MaxSeq(Tail(s)))

\* s[:n] for n >= 0
Prefix(s, n) == SubSeq(s, 1, Min2(n, Len(s)))

\* s[-n:] for 1 <= n <= len(s)
LastN(s, n) == SubSeq(s, Len(s) - n + 1, Len(s))

\* Stable insertion of an observation into a list sorted by period: after
\* every entry whose period is not later.
RECURSIVE InsertByPeriod(_, _)
InsertByPeriod(sorted, item) ==
    IF sorted = <<>> THEN <<item>>
    ELSE IF DateLess(Get(item.period), Get(Head(sorted).period))
         THEN <<item>> \o sorted
         ELSE <<Head(sorted)>> \o InsertByPeriod(Tail(sorted), item)

\* Variant: the entries are taken in the order they came in (no sort).
SortByPeriodAsStored(items) == items

\* sorted(items, key=lambda item: item[0]) on items that all have a period.
RECURSIVE SortByPeriod(_)
SortByPeriod(items) ==
    IF items = <<>> THEN <<>>
    ELSE InsertByPeriod(SortByPeriod(SubSeq(items, 1, Len(items) - 1)),
                        items[Len(items)])

HasValue(item) == ~IsNone(item.value)

HasPeriod(item) == ~IsNone(item.period)


-----------------------------------------------------------------------------
(* Derived statistics *)

FixedScale == 10000

\* Variant: the entries of M and Q swapped in the table.
PeriodsPerYearSwapped(frequency) ==
    IF frequency = "M" THEN 4
    ELSE IF frequency = "Q" THEN 12
    ELSE IF frequency = "A" THEN 1
    ELSE 12

\* FREQUENCY_TO_PERIODS.get(frequency, 12)
PeriodsPerYear(frequency) ==
    IF frequency = "M" THEN 12
    ELSE IF frequency = "Q" THEN 4
    ELSE IF frequency = "A" THEN 1
    ELSE 12

\* round(num / den, 4) in fixed-point units: nearest, ties to even.
RoundDiv(num, den) ==
    LET q == num \div den
        r == num % den
    IN  IF 2 * r < den THEN q
        ELSE IF 2 * r > den THEN q + 1
        ELSE IF q % 2 = 0 THEN q ELSE q + 1

\* round(mean(window), 4)
RoundedMean(window) == RoundDiv(SumSeq(window), Len(window))

ValuesOf(items) == [i \in 1..Len(items) |-> Get(items[i].value)]

EmptyStats ==
    [raised |-> FALSE, latest_period |-> None, latest_value |-> None,
     mom_change |-> None, yoy_change |-> None, rolling_3m_avg |-> None,
     rolling_12m_avg |-> None, min |-> None, max |-> None]

RaisedStats == [EmptyStats EXCEPT !.raised = TRUE]

\* len(ordered) > periods_per_year : the guard of yoy_change
YoyGuard(n, periods_per_year) == n > periods_per_year

\* Variant: ordered[-periods_per_year], one position too late.
YoyComparisonOffByOne(vals, periods_per_year) ==
    vals[Len(vals) - periods_per_year + 1]

\* ordered[-(periods_per_year + 1)][1] : the value yoy_change compares with
YoyComparison(vals, periods_per_year) == vals[Len(vals) - periods_per_year]

\* len(ordered) >= 3 and the window ordered[-3:]
Rolling3Guard(n) == n >= 3

Rolling3Window(vals) == LastN(vals, 3)

\* Variant: len(ordered) > periods_per_year, the guard of yoy_change reused.
Rolling12GuardStrict(n, periods_per_year) == n > periods_per_year

\* len(ordered) >= periods_per_year and the window ordered[-periods_per_year:]
Rolling12Guard(n, periods_per_year) == n >= periods_per_year

Rolling12Window(vals, periods_per_year) == LastN(vals, periods_per_year)

\* The list _derive_stats sorts: every entry whose value is not None.  The
\* period is not looked at, so an entry (None, 1.5) is kept.
StatsFilter(values) == SelectSeq(values, HasValue)

\* _derive_stats.  sorted() compares the periods of the kept entries; a None
\* period among two or more entries is a TypeError, and a single entry with a
\* None period fails at latest_period.isoformat().
DeriveStats(values, frequency) ==
    LET kept == StatsFilter(values)
    IN  IF kept = <<>> THEN EmptyStats
        ELSE IF \E i \in 1..Len(kept) : IsNone(kept[i].period) THEN RaisedStats
        ELSE
          LET ordered == SortByPeriod(kept)
              n == Len(ordered)
              vals == ValuesOf(ordered)
              latest_value == vals[n]
              periods_per_year == PeriodsPerYear(frequency)
          IN  [raised |-> FALSE,
               latest_period |-> Some(IsoFormat(Get(ordered[n].period))),
               latest_value |-> Some(latest_value),
               mom_change |->
                   IF n >= 2 THEN Some(latest_value - vals[n - 1]) ELSE None,
               yoy_change |->
                   IF YoyGuard(n, periods_per_year)
                   THEN Some(latest_value - YoyComparison(vals, periods_per_year))
                   ELSE None,
               rolling_3m_avg |->
                   IF Rolling3Guard(n) THEN Some(RoundedMean(Rolling3Window(vals)))
                   ELSE None,
               rolling_12m_avg |->
                   IF Rolling12Guard(n, periods_per_year)
                   THEN Some(RoundedMean(Rolling12Window(vals, periods_per_year)))
                   ELSE None,
               min |-> Some(MinSeq(vals)),
               max |-> Some(MaxSeq(vals))]

-----------------------------------------------------------------------------
(* Quality evaluation *)

MonthlyToleranceDays == 40

OtherToleranceDays == 120

MissingListed == 5

MinDepth == 3

\* A check is [name, ok, detail]; the detail string is kept as its parts.
Check(name, ok, label, period, missing, total) ==
    [name |-> name, ok |-> ok,
     detail |-> [label |-> label, period |-> period,
                 missing |-> missing, total |-> total]]

\* A limitation string, kept as its fixed text and its interpolated parts.
Limitation(text, periods, source, id) ==
    [text |-> text, periods |-> periods, source |-> source, id |-> id]

NoObservations == Limitation("No observations available.", <<>>, "", "")

StaleData ==
    Limitation("Latest data is older than expected cadence.", <<>>, "", "")

MissingValuesFor(periods) == Limitation("Missing values for", periods, "", "")

InsufficientLookback ==
    Limitation("Insufficient lookback window to compute deltas.", <<>>, "", "")

ToleranceDays(frequency) ==
    IF frequency = "M" THEN MonthlyToleranceDays ELSE OtherToleranceDays

\* Variant: the tolerance itself counts as stale (< for <=).
IsFreshStrict(today, latest_period, frequency) ==
    DaysBetween(today, latest_period) < ToleranceDays(frequency)

\* (today - latest_period).days <= tolerance_days
IsFresh(today, latest_period, frequency) ==
    DaysBetween(today, latest_period) <= ToleranceDays(frequency)

\* Variant: the floor one entry lower (len(ordered) < 2).
DepthBelowFloorTwo(n) == n < MinDepth - 1

\* not ordered or len(ordered) < 3
DepthBelowFloor(n) == n < MinDepth

\* Variant: the floor applied first, so that a failed check turns red to amber.
StatusOfAmberLast(checks, n) ==
    IF \E i \in 1..Len(checks) : ~checks[i].ok THEN "amber"
    ELSE IF DepthBelowFloor(n) THEN "red"
    ELSE "green"

\* Variant: a failed check does not lower the status.
StatusOfIgnoresChecks(checks, n) ==
    IF DepthBelowFloor(n) THEN "red" ELSE "green"

\* status after the checks: green, amber on a failed check, red under the floor
StatusOf(checks, n) ==
    IF DepthBelowFloor(n) THEN "red"
    ELSE IF \E i \in 1..Len(checks) : ~checks[i].ok THEN "amber"
    ELSE "green"

\* Variant: the most recent missing periods are the ones listed.
ListedMissingNewest(missing_values) ==
    IF Len(missing_values) <= MissingListed THEN missing_values
    ELSE LastN(missing_values, MissingListed)

\* missing_values[:5]
ListedMissing(missing_values) == Prefix(missing_values, MissingListed)

\* Variant: an entry without a period is kept and sorts first (date.min for
\* the missing period).
QualityFilterNullFirst(observations) ==
    [i \in 1..Len(observations) |->
        IF HasPeriod(observations[i]) THEN observations[i]
        ELSE [observations[i] EXCEPT !.period = Some(MkDate(1, 1, 1))]]

\* The entries _quality_checks evaluates: those with a period.
QualityFilter(observations) == SelectSeq(observations, HasPeriod)

\* Variant: no data rated red without a limitation.
NoAvailabilitySilent ==
    [status |-> "red",
     checks |-> <<Check("availability", FALSE,
                        "No observations available.", <<>>, 0, 0)>>,
     limitations |-> <<>>]

\* Variant: no data rated amber and not reported as a limitation.
NoAvailabilityAmber ==
    [status |-> "amber",
     checks |-> <<Check("availability", FALSE,
                        "No observations available.", <<>>, 0, 0)>>,
     limitations |-> <<>>]

\* The verdict when no entry has a period: the early return.
NoAvailability ==
    [status |-> "red",
     checks |-> <<Check("availability", FALSE,
                        "No observations available.", <<>>, 0, 0)>>,
     limitations |-> <<NoObservations>>]

\* _quality_checks
QualityChecks(observations, frequency, today) ==
    LET ordered == SortByPeriod(QualityFilter(observations))
    IN  IF ordered = <<>> THEN NoAvailability
        ELSE
          LET total == Len(ordered)
              latest_period == Get(ordered[total].period)
              is_fresh == IsFresh(today, latest_period, frequency)
              missing == SelectSeq(ordered, LAMBDA item : ~HasValue(item))
              missing_values ==
                  [i \in 1..Len(missing) |-> IsoFormat(Get(missing[i].period))]
              checks ==
                  <<Check("freshness", is_fresh,
                          IF is_fresh THEN "fresh" ELSE "stale",
                          IsoFormat(latest_period), 0, 0),
                    Check("missing_values", Len(missing_values) = 0,
                          "missing points out of", <<>>,
                          Len(missing_values), total)>>
              limitations ==
                  (IF is_fresh THEN <<>> ELSE <<StaleData>>)
                  \o (IF missing_values # <<>>
                      THEN <<MissingValuesFor(ListedMissing(missing_values))>>
                      ELSE <<>>)
                  \o (IF DepthBelowFloor(total) THEN <<InsufficientLookback>>
                      ELSE <<>>)
          IN  [status |-> StatusOf(checks, total),
               checks |-> checks,
               limitations |-> limitations]

-----------------------------------------------------------------------------
(* Series registry: repositories/series.py *)

\* str.upper() on the strings the model uses.
Upper(str) ==
    IF str = "ons" THEN "ONS"
    ELSE IF str = "oecd" THEN "OECD"
    ELSE IF str = "m" THEN "M"
    ELSE IF str = "q" THEN "Q"
    ELSE IF str = "a" THEN "A"
    ELSE str

\* The WHERE clause of find_by_source.
MatchesSource(row, provider, source_series_id) ==
    /\ row.enabled
    /\ row.provider = provider
    /\ \/ (row.provider = "ONS" /\ row.series_id = source_series_id)
       \/ (row.provider = "OECD" /\ row.subject = source_series_id)

\* Two rows that one find_by_source query both matches.
SameKey(a, b) ==
    /\ a.enabled /\ b.enabled
    /\ a.provider = b.provider
    /\ \/ (a.provider = "ONS" /\ a.series_id = b.series_id)
       \/ (a.provider = "OECD" /\ a.subject = b.subject)

\* The query of find_by_source ends in LIMIT 1 and has no ORDER BY: of the
\* rows that match, the database returns whichever its scan meets first.  A
\* scan is the registry as one call's lookups see it: of the rows that share
\* a key, the one the database returns.  A registry whose keys are unique
\* has one scan, itself.
Scans(sources) ==
    {kept \in SUBSET sources :
        /\ \A row \in sources : row \in kept \/ \E k \in kept : SameKey(row, k)
        /\ \A a, b \in kept : SameKey(a, b) => a = b}

\* find_by_source: cursor.fetchone() of a LIMIT 1 query, None when no row.
FindBySource(sources, source, source_series_id) ==
    LET provider == Upper(source)
        found == {row \in sources : MatchesSource(row, provider, source_series_id)}
    IN  IF found = {} THEN None ELSE Some(CHOOSE row \in found : TRUE)

-----------------------------------------------------------------------------
(* Observation store: services/series_service.py *)

\* Insertion of a row into a list ordered by label, greatest first.
RECURSIVE InsertByLabelDesc(_, _)
InsertByLabelDesc(sorted, row) ==
    IF sorted = <<>> THEN <<row>>
    ELSE IF LabelLess(Head(sorted).period_label, row.period_label)
         THEN <<row>> \o sorted
         ELSE <<Head(sorted)>> \o InsertByLabelDesc(Tail(sorted), row)

\* ORDER BY period_label DESC (labels are unique within a series)
RECURSIVE OrderByLabelDesc(_)
OrderByLabelDesc(rows) ==
    IF rows = {} THEN <<>>
    ELSE LET any == CHOOSE r \in rows : TRUE
         IN  InsertByLabelDesc(OrderByLabelDesc(rows \ {any}), any)

\* fetch_ons_series with start_period = end_period = None
FetchOnsSeries(table, series_id, dataset_id, limit) ==
    Prefix(OrderByLabelDesc({r \in table :
                                /\ r.series_id = series_id
                                /\ (dataset_id # "" => r.dataset_id = dataset_id)}),
           limit)

\* fetch_oecd_series with start_period = end_period = None
FetchOecdSeries(table, dataset_code, location, subject, measure, frequency, limit) ==
    Prefix(OrderByLabelDesc({r \in table :
                                /\ r.dataset_code = dataset_code
                                /\ r.location = location
                                /\ r.subject = subject
                                /\ r.measure = measure
                                /\ r.frequency = frequency}),
           limit)

-----------------------------------------------------------------------------
(* Data-pack assembler *)

DefaultLookback == 24

FetchBuffer == 4

FetchFloor == 12

\* _determine_frequency.  meta.get("metadata", {}) is the column's value, so
\* a NULL metadata column gives None and None.get raises AttributeError.
DetermineFrequency(meta) ==
    IF meta.frequency # "" THEN [raised |-> FALSE, value |-> Upper(meta.frequency)]
    ELSE IF IsNone(meta.metadata) THEN [raised |-> TRUE, value |-> ""]
    ELSE [raised |-> FALSE,
          value |-> Upper(OrElse(Get(meta.metadata).frequency, "M"))]

\* max(lookback_periods + 4, 12)
FetchLimit(lookback_periods) == Max2(lookback_periods + FetchBuffer, FetchFloor)

\* float(value) under try/except: a value that does not convert becomes None.
ToFloat(value) ==
    IF IsNone(value) THEN None
    ELSE IF Get(value).numeric THEN Some(Get(value).v)
    ELSE None

\* The (parsed, value) tuples build_data_pack makes of the fetched rows.
Observations(rows, today) ==
    [i \in 1..Len(rows) |->
        [period |-> ParsePeriod(rows[i].period_label, today),
         value |-> ToFloat(rows[i].value)]]

\* Variant: filtered, then limited.
TruncatedFilterFirst(observations, lookback_periods) ==
    LET kept == Prefix(SelectSeq(observations, HasPeriod), lookback_periods)
    IN  [i \in 1..Len(kept) |->
            [period_start |-> IsoFormat(Get(kept[i].period)),
             value |-> kept[i].value]]

\* The "observations" list of a payload:
\* [... for obs in observations[:lookback_periods] if obs[0]]
TruncatedObservations(observations, lookback_periods) ==
    LET kept == SelectSeq(Prefix(observations, lookback_periods), HasPeriod)
    IN  [i \in 1..Len(kept) |->
            [period_start |-> IsoFormat(Get(kept[i].period)),
             value |-> kept[i].value]]

\* datetime.utcnow().isoformat() + "Z"
PulledAt(clk) == <<clk.today.y, clk.today.m, clk.today.d, clk.instant>>

\* The subset of a payload that enters the hash.
HashedPayload(payload) == payload

\* _hash_payload: SHA-256 of the canonical JSON, taken as injective.
HashPayload(payload) == <<"sha256", payload>>

NotConfigured(selection) ==
    Limitation("Series not configured.", <<>>,
               selection.source, selection.source_series_id)

NotSupported(provider) ==
    Limitation("Provider not supported in data pack.", <<>>, provider, "")

\* What one iteration of the loop over selected_series does:
\* outcome "skip" (limitation, continue), "emit" (payload appended) or
\* "raise" (an exception leaves build_data_pack).
Step(outcome, payloads, limitations) ==
    [outcome |-> outcome, payloads |-> payloads, limitations |-> limitations]

\* rows fetched for a resolved configuration
FetchRows(config, selection, limit, ons, oecd) ==
    IF config.provider = "ONS"
    THEN FetchOnsSeries(ons, config.series_id,
                        OrElse(selection.dataset_id, config.dataset_id), limit)
    ELSE FetchOecdSeries(oecd, config.dataset_code,
                         OrElse(config.location, "GBR"), config.subject,
                         config.measure, config.frequency, limit)

SeriesPayload(selection, config, frequency, observations, lookback_periods, derived, quality, clk) ==
    [series_key |-> OrElse(selection.alias, config.slug),
     series_id |-> OrElse(config.series_id, config.slug),
     source |-> config.provider,
     source_series_id |-> selection.source_series_id,
     name |-> OrElse(config.description, config.slug),
     unit |-> config.unit,
     frequency |-> frequency,
     latest_period |-> derived.latest_period,
     observations |-> TruncatedObservations(observations, lookback_periods),
     derived |-> derived,
     provenance |-> [pulled_at |-> PulledAt(clk),
                     ingested_at |-> config.updated_at],
     quality_status |-> quality.status,
     quality_checks |-> quality.checks]

\* The body of `for selection in selected_series`.
ProcessSelection(selection, lookback_periods, sources, ons, oecd, clk) ==
    LET found == FindBySource(sources, selection.source, selection.source_series_id)
    IN  IF IsNone(found) THEN Step("skip", <<>>, <<NotConfigured(selection)>>)
        ELSE
          LET config == Get(found)
              freq == DetermineFrequency(config)
          IN  IF freq.raised THEN Step("raise", <<>>, <<>>)
              ELSE IF config.provider \notin {"ONS", "OECD"}
                   THEN Step("skip", <<>>, <<NotSupported(config.provider)>>)
              ELSE
                LET rows == FetchRows(config, selection,
                                      FetchLimit(lookback_periods), ons, oecd)
                    observations == Observations(rows, clk.today)
                    derived == DeriveStats(observations, freq.value)
                    quality == QualityChecks(observations, freq.value, clk.today)
                IN  IF derived.raised THEN Step("raise", <<>>, <<>>)
                    ELSE Step("emit",
                              <<SeriesPayload(selection, config, freq.value,
                                              observations, lookback_periods,
                                              derived, quality, clk)>>,
                              quality.limitations)

\* Variant: a skipped selection ends the loop (break for continue).
RECURSIVE ProcessAllStopAtSkip(_, _, _, _, _, _)
ProcessAllStopAtSkip(selected_series, lookback_periods, sources, ons, oecd, clk) ==
    IF selected_series = <<>> THEN Step("emit", <<>>, <<>>)
    ELSE
      LET first == ProcessSelection(Head(selected_series), lookback_periods,
                                    sources, ons, oecd, clk)
      IN  IF first.outcome \in {"raise", "skip"} THEN first
          ELSE
            LET rest == ProcessAllStopAtSkip(Tail(selected_series), lookback_periods,
                                             sources, ons, oecd, clk)
            IN  IF rest.outcome = "raise" THEN rest
                ELSE Step("emit", first.payloads \o rest.payloads,
                          first.limitations \o rest.limitations)

\* Variant: each payload is put in front of the list (insert(0, ...) for
\* append).
RECURSIVE ProcessAllPrepend(_, _, _, _, _, _)
ProcessAllPrepend(selected_series, lookback_periods, sources, ons, oecd, clk) ==
    IF selected_series = <<>> THEN Step("emit", <<>>, <<>>)
    ELSE
      LET first == ProcessSelection(Head(selected_series), lookback_periods,
                                    sources, ons, oecd, clk)
      IN  IF first.outcome = "raise" THEN first
          ELSE
            LET rest == ProcessAllPrepend(Tail(selected_series), lookback_periods,
                                          sources, ons, oecd, clk)
            IN  IF rest.outcome = "raise" THEN rest
                ELSE Step("emit", rest.payloads \o first.payloads,
                          first.limitations \o rest.limitations)

\* Variant: the status is a variable set outside the loop, so a status that
\* is not green sticks to the payloads emitted after it.
RECURSIVE ProcessAllStickyStatus(_, _, _, _, _, _)
ProcessAllStickyStatus(selected_series, lookback_periods, sources, ons, oecd, clk) ==
    IF selected_series = <<>> THEN Step("emit", <<>>, <<>>)
    ELSE
      LET first == ProcessSelection(Head(selected_series), lookback_periods,
                                    sources, ons, oecd, clk)
      IN  IF first.outcome = "raise" THEN first
          ELSE
            LET rest == ProcessAllStickyStatus(Tail(selected_series), lookback_periods,
                                               sources, ons, oecd, clk)
                sticks == /\ first.payloads # <<>>
                          /\ first.payloads[1].quality_status # "green"
                later == [i \in 1..Len(rest.payloads) |->
                            IF sticks
                            THEN [rest.payloads[i] EXCEPT
                                    !.quality_status = first.payloads[1].quality_status]
                            ELSE rest.payloads[i]]
            IN  IF rest.outcome = "raise" THEN rest
                ELSE Step("emit", first.payloads \o later,
                          first.limitations \o rest.limitations)

\* The loop over selected_series, in input order; an exception ends it.
RECURSIVE ProcessAll(_, _, _, _, _, _)
ProcessAll(selected_series, lookback_periods, sources, ons, oecd, clk) ==
    IF selected_series = <<>> THEN Step("emit", <<>>, <<>>)
    ELSE
      LET first == ProcessSelection(Head(selected_series), lookback_periods,
                                    sources, ons, oecd, clk)
      IN  IF first.outcome = "raise" THEN first
          ELSE
            LET rest == ProcessAll(Tail(selected_series), lookback_periods,
                                   sources, ons, oecd, clk)
            IN  IF rest.outcome = "raise" THEN rest
                ELSE Step("emit", first.payloads \o rest.payloads,
                          first.limitations \o rest.limitations)

\* Variant: amber tested before red.
AggregateStatusAmberFirst(series_payloads) ==
    IF \E i \in 1..Len(series_payloads) :
          series_payloads[i].quality_status = "amber"
    THEN "amber"
    ELSE IF \E i \in 1..Len(series_payloads) :
                series_payloads[i].quality_status = "red"
    THEN "red"
    ELSE "green"

\* aggregate_status over the emitted payloads
AggregateStatus(series_payloads) ==
    IF \E i \in 1..Len(series_payloads) : series_payloads[i].quality_status = "red"
    THEN "red"
    ELSE IF \E i \in 1..Len(series_payloads) :
                series_payloads[i].quality_status = "amber"
    THEN "amber"
    ELSE "green"

CoverageCheck(series_payloads) ==
    Check("coverage", series_payloads # <<>>, "series included.", <<>>,
          0, Len(series_payloads))

\* Variant: only the topic and the identity of each series are hashed.
HashInputIdentityOnly(topic, series_payloads) ==
    [topic |-> topic,
     series |-> [i \in 1..Len(series_payloads) |->
                    [series_key |-> series_payloads[i].series_key,
                     series_id |-> series_payloads[i].series_id]]]

\* The dictionary handed to _hash_payload.
HashInput(topic, series_payloads) ==
    [topic |-> topic,
     series |-> [i \in 1..Len(series_payloads) |-> HashedPayload(series_payloads[i])]]

RaisedPack ==
    [raised |-> TRUE, topic |-> "", as_of |-> "", lookback_periods |-> 0,
     series |-> <<>>,
     quality |-> [status |-> "", checks |-> <<>>],
     data_limitations |-> <<>>,
     data_pack_hash |-> <<>>]

\* options.get("lookback_periods", 24), options.get("as_of", "latest")
LookbackOf(options) ==
    IF IsNone(options.lookback_periods) THEN DefaultLookback
    ELSE Get(options.lookback_periods)

AsOfOf(options) == IF IsNone(options.as_of) THEN "latest" ELSE Get(options.as_of)

\* Variant: the hashed subset also holds as_of.
BuildDataPackHashesAsOf(topic, selected_series, options, sources, ons, oecd, clk) ==
    LET lookback_periods == LookbackOf(options)
        loop == ProcessAll(selected_series, lookback_periods, sources, ons, oecd, clk)
    IN  IF loop.outcome = "raise" THEN RaisedPack
        ELSE [raised |-> FALSE,
              topic |-> topic,
              as_of |-> AsOfOf(options),
              lookback_periods |-> lookback_periods,
              series |-> loop.payloads,
              quality |-> [status |-> AggregateStatus(loop.payloads),
                           checks |-> <<CoverageCheck(loop.payloads)>>],
              data_limitations |-> loop.limitations,
              data_pack_hash |-> HashPayload(<<AsOfOf(options), HashInput(topic, loop.payloads)>>)]

\* build_data_pack
BuildDataPack(topic, selected_series, options, sources, ons, oecd, clk) ==
    LET lookback_periods == LookbackOf(options)
        loop == ProcessAll(selected_series, lookback_periods, sources, ons, oecd, clk)
    IN  IF loop.outcome = "raise" THEN RaisedPack
        ELSE [raised |-> FALSE,
              topic |-> topic,
              as_of |-> AsOfOf(options),
              lookback_periods |-> lookback_periods,
              series |-> loop.payloads,
              quality |-> [status |-> AggregateStatus(loop.payloads),
                           checks |-> <<CoverageCheck(loop.payloads)>>],
              data_limitations |-> loop.limitations,
              data_pack_hash |-> HashPayload(HashInput(topic, loop.payloads))]

-----------------------------------------------------------------------------
(* The tables the builder reads, the clock, and the callers' inputs *)

MaxRows == 14

MaxTicks == 1

MaxIrregularRows == 4

QuarterlyRows == 5

\* date + timedelta(days=1)
NextDate(dt) ==
    IF dt.d < DaysInMonth(dt.y, dt.m) THEN MkDate(dt.y, dt.m, dt.d + 1)
    ELSE IF dt.m < 12 THEN MkDate(dt.y, dt.m + 1, 1)
    ELSE MkDate(dt.y + 1, 1, 1)

\* date + timedelta(days=n), n >= 0, a month at a time
RECURSIVE AddDays(_, _)
AddDays(dt, n) ==
    IF dt.d + n <= DaysInMonth(dt.y, dt.m) THEN MkDate(dt.y, dt.m, dt.d + n)
    ELSE AddDays(NextDate(MkDate(dt.y, dt.m, DaysInMonth(dt.y, dt.m))),
                 n - (DaysInMonth(dt.y, dt.m) - dt.d + 1))

\* The first day of the latest stored month of the ONS series.
LatestDate == MkDate(2024, 3, 1)

\* The days on which a run starts: the first day of the latest stored month
\* (the day the seeding scripts label their newest period with), the last day
\* a monthly series whose latest period is LatestDate is fresh, and the last
\* day any other series is.
TodaySet ==
    {LatestDate,
     AddDays(LatestDate, MonthlyToleranceDays),
     AddDays(LatestDate, OtherToleranceDays)}

Frequencies == {"M", "Q", "A"}

MonthsStep(frequency) ==
    IF frequency = "M" THEN 1 ELSE IF frequency = "Q" THEN 3 ELSE 12

\* A stored value: NUMERIC, or a text the store could not turn into a number.
Numeric(v) == Some([numeric |-> TRUE, v |-> v])

\* A value float() rejects (a row.get("value") that is no number).
NotANumber == Some([numeric |-> FALSE, v |-> 0])

\* Value of the j-th oldest observation (j = 1 is the oldest), in 1/10000.
SeriesValue(j) == 98 * FixedScale + 1000 * j * j + 7 * j

OnsRow(period_label, value) ==
    [dataset_id |-> "MM23", series_id |-> "L522",
     period_label |-> period_label, value |-> value]

\* The ONS rows of a scenario: n dated rows ending at LatestDate, one per
\* period of the frequency, labelled "YYYY-MM-01" or "YYYY-MM", with one
\* optional irregularity.
OnsRows(sc) ==
    LET dated ==
          {OnsRow(LET ym == MonthsBack(LatestDate.y, LatestDate.m,
                                       i * MonthsStep(sc.frequency))
                  IN  IF sc.kind = "iso" THEN IsoLabel(ym[1], ym[2], 1)
                      ELSE YmLabel(ym[1], ym[2]),
                  IF \/ (sc.defect \in {"null_newest", "text_value_null"} /\ i = 0)
                     \/ (sc.defect = "null_oldest" /\ i = sc.n - 1)
                     \/ (sc.defect = "null_alternate" /\ i % 2 = 1)
                  THEN None
                  ELSE IF sc.defect = "bad_value" /\ i = 0 THEN NotANumber
                  ELSE Numeric(SeriesValue(sc.n - i)))
             : i \in 0..(sc.n - 1)}
        extra ==
          IF sc.defect \in {"text_value", "text_value_null"}
          THEN {OnsRow(TextLabel, Numeric(SeriesValue(sc.n + 1)))}
          ELSE IF sc.defect = "text_null" THEN {OnsRow(TextLabel, None)}
          ELSE {}
    IN  dated \cup extra

Defects ==
    {"none", "null_newest", "null_oldest", "null_alternate", "bad_value",
     "text_value", "text_null", "text_value_null"}

\* Series labelled "YYYY-MM-01" of every length, with every value present or
\* with every second value missing (monthly up to MaxRows rows, quarterly and
\* annual up to QuarterlyRows), and series of up to MaxIrregularRows dated
\* rows that are labelled "YYYY-MM" or carry irregular rows.
Scenarios ==
    {sc \in [n : 0..MaxRows, frequency : Frequencies, kind : {"iso", "ym"},
             defect : Defects] :
        /\ sc.kind = "ym" => sc.defect = "none"
        /\ (sc.kind = "ym" \/ sc.defect \notin {"none", "null_alternate"})
              => sc.n <= MaxIrregularRows
        /\ sc.frequency # "M" => sc.n <= QuarterlyRows}

OecdRow(period_label, value) ==
    [dataset_code |-> "MEI", location |-> "GBR", subject |-> "CLI",
     measure |-> "STSA", frequency |-> "Q",
     period_label |-> period_label, value |-> value]

\* The OECD rows: QuarterlyRows quarters ending in January of the latest year.
OecdRows ==
    {OecdRow(LET ym == MonthsBack(LatestDate.y, 1, 3 * i)
             IN  IsoLabel(ym[1], ym[2], 1),
             Numeric(SeriesValue(QuarterlyRows - i)))
       : i \in 0..(QuarterlyRows - 1)}

ConfigRow(slug, provider, enabled, dataset_id, dataset_code, series_id, subject, measure, frequency) ==
    [slug |-> slug, provider |-> provider, enabled |-> enabled,
     dataset_id |-> dataset_id, dataset_code |-> dataset_code,
     series_id |-> series_id, location |-> "", subject |-> subject,
     measure |-> measure, frequency |-> frequency, unit |-> "Index",
     description |-> "", metadata |-> Some([frequency |-> ""]),
     updated_at |-> Some(IsoFormat(LatestDate))]

\* The registry: the ONS series of the scenario, a quarterly OECD series and
\* a disabled ONS series.
Registry(sc) ==
    {ConfigRow("cpi_headline", "ONS", TRUE, "MM23", "", "L522", "", "",
               sc.frequency),
     ConfigRow("oecd_cli", "OECD", TRUE, "", "MEI", "", "CLI", "STSA", "Q"),
     ConfigRow("old_rpi", "ONS", FALSE, "MM23", "", "CHAW", "", "", "M")}

Selection(source, source_series_id, dataset_id, alias) ==
    [source |-> source, source_series_id |-> source_series_id,
     dataset_id |-> dataset_id, alias |-> alias]

SelCpi == Selection("ons", "L522", "", "")

SelCpiOtherDataset == Selection("ONS", "L522", "DRSI", "cpi_drsi")

SelCli == Selection("OECD", "CLI", "", "cli")

SelUnknown == Selection("ONS", "NOPE", "", "")

SelDisabled == Selection("ONS", "CHAW", "", "rpi")

SelImf == Selection("IMF", "L522", "", "")

\* The selection lists callers send.
SelectionLists ==
    {<<>>, <<SelUnknown>>, <<SelCpi>>, <<SelCli, SelCpi>>,
     <<SelCpi, SelImf, SelCli>>, <<SelDisabled, SelCpiOtherDataset>>}

Topics == {"inflation"}

SmallLookback == 2

\* The options callers send: the defaults, a short lookback, an as_of date.
OptionsSet ==
    {[as_of |-> None, lookback_periods |-> None],
     [as_of |-> None, lookback_periods |-> Some(SmallLookback)],
     [as_of |-> Some("2024-01-31"), lookback_periods |-> None]}

NoPack == [RaisedPack EXCEPT !.raised = FALSE]

\* The evaluators' results before they are called on their own.
NotCalled == [derived |-> None, quality |-> None]

Init ==
    \E sc \in Scenarios, today \in TodaySet :
        /\ economic_data_sources = Registry(sc)
        /\ ons_economic_series = OnsRows(sc)
        /\ oecd_economic_series = OecdRows
        /\ clock = [today |-> today, instant |-> 0]
        /\ request = None
        /\ called_at = clock
        /\ pack = NoPack
        /\ entries = None
        /\ evaluation = NotCalled
        /\ briefings = <<>>
        /\ briefing_versions = <<>>
        /\ briefing_chat = {}
        /\ calls = <<>>

\* A caller (create_briefing or the preview endpoint) runs build_data_pack.
\* A run follows one request: a later call repeats the arguments of the first.
CallBuildDataPack ==
    \E topic \in Topics, selected_series \in SelectionLists, options \in OptionsSet :
        /\ request \in {None, Some([topic |-> topic,
                                    selected_series |-> selected_series,
                                    options |-> options])}
        /\ request' = Some([topic |-> topic, selected_series |-> selected_series,
                            options |-> options])
        /\ called_at' = clock
        /\ \E scan \in Scans(economic_data_sources) :
              pack' = BuildDataPack(topic, selected_series, options, scan,
                                    ons_economic_series, oecd_economic_series,
                                    clock)
        /\ UNCHANGED <<economic_data_sources, ons_economic_series,
                       oecd_economic_series, clock>>
        /\ UNCHANGED <<evaluator_vars, briefing_vars>>

\* Time passes within the day.
Tick ==
    /\ clock.instant < MaxTicks
    /\ clock' = [clock EXCEPT !.instant = @ + 1]
    /\ UNCHANGED <<economic_data_sources, ons_economic_series,
                   oecd_economic_series, request, called_at, pack>>
    /\ UNCHANGED <<evaluator_vars, briefing_vars>>

\* Time passes over midnight.
Midnight ==
    /\ clock.instant < MaxTicks
    /\ clock' = [today |-> NextDate(clock.today), instant |-> clock.instant + 1]
    /\ UNCHANGED <<economic_data_sources, ons_economic_series,
                   oecd_economic_series, request, called_at, pack>>
    /\ UNCHANGED <<evaluator_vars, briefing_vars>>

Next == CallBuildDataPack \/ Tick \/ Midnight

Spec == Init /\ [][Next]_vars

-----------------------------------------------------------------------------
(* Registries beyond the seeded one *)

\* What an operator can make of the configuration of the ONS series: a second
\* enabled configuration of the same series code in another dataset, the
\* frequency kept in the metadata column only, in neither place, a NULL
\* metadata column, a frequency outside FREQUENCY_TO_PERIODS.
RegistryVariants ==
    {"seeded", "twin", "metadata_frequency", "metadata_empty", "metadata_null",
     "unrecognized"}

CpiConfig(variant) ==
    LET row == ConfigRow("cpi_headline", "ONS", TRUE, "MM23", "", "L522", "", "", "M")
    IN  IF variant = "metadata_frequency"
        THEN [row EXCEPT !.frequency = "", !.metadata = Some([frequency |-> "q"])]
        ELSE IF variant = "metadata_empty" THEN [row EXCEPT !.frequency = ""]
        ELSE IF variant = "metadata_null"
        THEN [row EXCEPT !.frequency = "", !.metadata = None]
        ELSE IF variant = "unrecognized" THEN [row EXCEPT !.frequency = "W"]
        ELSE row

RegistryOf(variant) ==
    {CpiConfig(variant),
     ConfigRow("oecd_cli", "OECD", TRUE, "", "MEI", "", "CLI", "STSA", "Q")}
    \cup (IF variant = "twin"
          THEN {ConfigRow("cpi_headline_drsi", "ONS", TRUE, "DRSI", "", "L522", "", "", "Q")}
          ELSE {})

\* Monthly series labelled "YYYY-MM-01" with every value present.
RegistryScenarios ==
    {sc \in Scenarios : sc.frequency = "M" /\ sc.kind = "iso" /\ sc.defect = "none"}

InitRegistry ==
    \E sc \in RegistryScenarios, variant \in RegistryVariants, today \in TodaySet :
        /\ economic_data_sources = RegistryOf(variant)
        /\ ons_economic_series = OnsRows(sc)
        /\ oecd_economic_series = OecdRows
        /\ clock = [today |-> today, instant |-> 0]
        /\ request = None
        /\ called_at = clock
        /\ pack = NoPack
        /\ entries = None
        /\ evaluation = NotCalled
        /\ briefings = <<>>
        /\ briefing_versions = <<>>
        /\ briefing_chat = {}
        /\ calls = <<>>

SpecRegistry == InitRegistry /\ [][Next]_vars

-----------------------------------------------------------------------------
(* _derive_stats and _quality_checks called on their own *)

MaxEntries == 4

\* The periods of the entries: the first days of the four months that end
\* with the latest stored month.
EvaluatorPeriods ==
    {MkDate(MonthsBack(LatestDate.y, LatestDate.m, k)[1],
            MonthsBack(LatestDate.y, LatestDate.m, k)[2], 1) : k \in {0, 1, 2, 3}}

\* An entry (period, value): a period or None, and None or a value that
\* tells the entries apart.
Entries ==
    {[period |-> Some(dt), value |-> None] : dt \in EvaluatorPeriods}
    \cup {[period |-> Some(dt), value |-> Some(SeriesValue(dt.m))]
            : dt \in EvaluatorPeriods}
    \cup {[period |-> None, value |-> None],
          [period |-> None, value |-> Some(SeriesValue(0))]}

\* The sequences of at most MaxEntries entries, in any order.
EntrySequences == UNION {[1..n -> Entries] : n \in 0..MaxEntries}

\* The day of the call: the last day on which a monthly series that ends
\* with the latest stored month is fresh.
EvaluatorToday == AddDays(LatestDate, MonthlyToleranceDays)

InitEvaluator ==
    /\ entries \in {Some([observations |-> observations, frequency |-> frequency])
                        : observations \in EntrySequences, frequency \in {"M", "A"}}
    /\ evaluation = NotCalled
    /\ economic_data_sources = {}
    /\ ons_economic_series = {}
    /\ oecd_economic_series = {}
    /\ clock = [today |-> EvaluatorToday, instant |-> 0]
    /\ request = None
    /\ called_at = clock
    /\ pack = NoPack
    /\ briefings = <<>>
    /\ briefing_versions = <<>>
    /\ briefing_chat = {}
    /\ calls = <<>>

\* _derive_stats(observations, frequency)
CallDeriveStats ==
    /\ IsNone(evaluation.derived)
    /\ evaluation' = [evaluation EXCEPT
                         !.derived = Some(DeriveStats(Get(entries).observations,
                                                      Get(entries).frequency))]
    /\ UNCHANGED <<entries, builder_vars, briefing_vars>>

\* _quality_checks(observations, frequency)
CallQualityChecks ==
    /\ IsNone(evaluation.quality)
    /\ evaluation' = [evaluation EXCEPT
                         !.quality = Some(QualityChecks(Get(entries).observations,
                                                        Get(entries).frequency,
                                                        clock.today))]
    /\ UNCHANGED <<entries, builder_vars, briefing_vars>>

NextEvaluator == CallDeriveStats \/ CallQualityChecks

SpecEvaluator == InitEvaluator /\ [][NextEvaluator]_vars

-----------------------------------------------------------------------------
(* Briefings and their versions: services/briefing_service.py over          *)
(* repositories/briefings.py.  A table with generated ids is a sequence, the *)
(* id of a row its index.  Every repository function runs in a transaction  *)
(* of its own (database.py: one connection per get_cursor), so it is one    *)
(* step, and the service calls of concurrent requests interleave between    *)
(* these steps.                                                             *)

MaxCalls == 3

\* SELECT * FROM briefings WHERE id = %s
GetBriefing(table, briefing_id) ==
    IF briefing_id \in 1..Len(table) THEN Some(table[briefing_id]) ELSE None

\* Variant: the version is looked up by its id alone.
GetVersionOfAnyBriefing(table, briefing_id, version_id) ==
    IF version_id \in 1..Len(table) THEN Some(table[version_id]) ELSE None

\* SELECT * FROM briefing_versions WHERE briefing_id = %s AND id = %s
GetVersion(table, briefing_id, version_id) ==
    IF version_id \in 1..Len(table) /\ table[version_id].briefing_id = briefing_id
    THEN Some(table[version_id])
    ELSE None

\* The ids of the versions stored for a briefing.
VersionsOf(table, briefing_id) ==
    {v \in 1..Len(table) : table[v].briefing_id = briefing_id}

\* _next_version_number: COALESCE(MAX(version_number), 0) + 1
NextVersionNumber(table, briefing_id) ==
    LET numbers == {table[v].version_number : v \in VersionsOf(table, briefing_id)}
    IN  IF numbers = {} THEN 1
        ELSE (CHOOSE n \in numbers : \A other \in numbers : other <= n) + 1

\* The requests of POST /briefings: two selection lists, default options.
CreateRequests ==
    {[topic |-> "inflation", user_request |-> "brief", selected_series |-> sel,
      options |-> [as_of |-> None, lookback_periods |-> None]]
        : sel \in {<<SelCpi>>, <<SelCli>>}}

\* What the language model returns: the render model of a new briefing, and
\* for an edit either an updated briefing or nothing (the current content is
\* kept).
Generated == "generated"

Edited == "edited"

\* A service call: its operation, where it stands, and its local variables.
NewCall(op, pc, req) ==
    [op |-> op, pc |-> pc, request |-> req,
     briefing_id |-> None, version_id |-> None, current_version |-> None,
     data_pack |-> None, input_spec |-> None, content_json |-> None,
     change_summary |-> None, version_number |-> None, new_version_id |-> None]

InProgress(call) == call.pc \notin {"done", "raised"}

\* The ONS series at the depth floor, every value present.
BriefingScenario ==
    [n |-> MinDepth, frequency |-> "M", kind |-> "iso", defect |-> "none"]

InitBriefings ==
    /\ briefings = <<>>
    /\ briefing_versions = <<>>
    /\ briefing_chat = {}
    /\ calls = <<>>
    /\ economic_data_sources = Registry(BriefingScenario)
    /\ ons_economic_series = OnsRows(BriefingScenario)
    /\ oecd_economic_series = OecdRows
    /\ clock = [today |-> LatestDate, instant |-> 0]
    /\ request = None
    /\ called_at = clock
    /\ pack = NoPack
    /\ entries = None
    /\ evaluation = NotCalled

\* create_briefing up to the first write: build_data_pack and the model's
\* render model.  An exception of build_data_pack ends the call.
StartCreateBriefing ==
    /\ Len(calls) < MaxCalls
    /\ \E req \in CreateRequests, scan \in Scans(economic_data_sources) :
          LET data_pack == BuildDataPack(req.topic, req.selected_series,
                                         req.options, scan, ons_economic_series,
                                         oecd_economic_series, clock)
              call == NewCall("create_briefing", "create_briefing", req)
          IN  calls' = Append(calls,
                  IF data_pack.raised THEN [call EXCEPT !.pc = "raised"]
                  ELSE [call EXCEPT !.data_pack = Some(data_pack),
                                    !.input_spec = Some(req),
                                    !.content_json = Some(Generated)])
    /\ UNCHANGED <<briefings, briefing_versions, briefing_chat>>
    /\ UNCHANGED <<builder_vars, evaluator_vars>>

\* briefing_repo.create_briefing: INSERT INTO briefings ... RETURNING *
InsertBriefing(c) ==
    /\ calls[c].pc = "create_briefing"
    /\ briefings' = Append(briefings, [topic |-> calls[c].request.topic,
                                        latest_version_id |-> None])
    /\ calls' = [calls EXCEPT ![c].briefing_id = Some(Len(briefings) + 1),
                              ![c].pc = "next_version_number"]
    /\ UNCHANGED <<briefing_versions, briefing_chat>>
    /\ UNCHANGED <<builder_vars, evaluator_vars>>

\* handle_chat is called: a chat request on a briefing id, with or without a
\* target version, for ids that exist and ids that do not.
StartHandleChat ==
    /\ Len(calls) < MaxCalls
    /\ \E briefing_id \in 1..(Len(briefings) + 1),
          target_version_id \in
              {None} \cup {Some(v) : v \in 1..(Len(briefing_versions) + 1)} :
          calls' = Append(calls,
              [NewCall("handle_chat", "get_briefing",
                       [message |-> "edit",
                        target_version_id |-> target_version_id])
                  EXCEPT !.briefing_id = Some(briefing_id)])
    /\ UNCHANGED <<briefings, briefing_versions, briefing_chat>>
    /\ UNCHANGED <<builder_vars, evaluator_vars>>

\* handle_chat, lines 91-96: get_briefing and the choice of the base version.
ReadBriefing(c) ==
    /\ calls[c].pc = "get_briefing"
    /\ LET briefing == GetBriefing(briefings, Get(calls[c].briefing_id))
           version_id ==
               IF IsNone(briefing) THEN None
               ELSE IF ~IsNone(calls[c].request.target_version_id)
                    THEN calls[c].request.target_version_id
                    ELSE Get(briefing).latest_version_id
       IN  calls' = [calls EXCEPT
                       ![c].version_id = version_id,
                       ![c].pc = IF IsNone(version_id) THEN "raised"
                                 ELSE "get_version"]
    /\ UNCHANGED <<briefings, briefing_versions, briefing_chat>>
    /\ UNCHANGED <<builder_vars, evaluator_vars>>

\* handle_chat, lines 98-108: get_version, then the model's edit.
ReadVersion(c) ==
    /\ calls[c].pc = "get_version"
    /\ LET current_version == GetVersion(briefing_versions,
                                         Get(calls[c].briefing_id),
                                         Get(calls[c].version_id))
       IN  IF IsNone(current_version)
           THEN calls' = [calls EXCEPT ![c].pc = "raised"]
           ELSE \E updated \in {Edited, Get(current_version).content_json} :
                  calls' = [calls EXCEPT
                              ![c].current_version = current_version,
                              ![c].input_spec = Some(Get(current_version).input_spec),
                              ![c].data_pack = Some(Get(current_version).data_pack),
                              ![c].content_json = Some(updated),
                              ![c].change_summary = Some("Applied requested edits."),
                              ![c].pc = "next_version_number"]
    /\ UNCHANGED <<briefings, briefing_versions, briefing_chat>>
    /\ UNCHANGED <<builder_vars, evaluator_vars>>

\* insert_version, line 45: the transaction of _next_version_number.
ReadNextVersionNumber(c) ==
    /\ calls[c].pc = "next_version_number"
    /\ calls' = [calls EXCEPT
                    ![c].version_number =
                        Some(NextVersionNumber(briefing_versions,
                                               Get(calls[c].briefing_id))),
                    ![c].pc = "insert_version"]
    /\ UNCHANGED <<briefings, briefing_versions, briefing_chat>>
    /\ UNCHANGED <<builder_vars, evaluator_vars>>

\* insert_version, lines 46-65: INSERT INTO briefing_versions ... RETURNING *
InsertVersion(c) ==
    /\ calls[c].pc = "insert_version"
    /\ briefing_versions' =
          Append(briefing_versions,
                 [briefing_id |-> Get(calls[c].briefing_id),
                  version_number |-> Get(calls[c].version_number),
                  input_spec |-> Get(calls[c].input_spec),
                  data_pack |-> Get(calls[c].data_pack),
                  content_json |-> Get(calls[c].content_json),
                  change_summary |-> calls[c].change_summary])
    /\ calls' = [calls EXCEPT ![c].new_version_id = Some(Len(briefing_versions) + 1),
                              ![c].pc = "update_latest_version"]
    /\ UNCHANGED <<briefings, briefing_chat>>
    /\ UNCHANGED <<builder_vars, evaluator_vars>>

\* update_latest_version: UPDATE briefings SET latest_version_id = %s
UpdateLatestVersion(c) ==
    /\ calls[c].pc = "update_latest_version"
    /\ briefings' = [briefings EXCEPT
                        ![Get(calls[c].briefing_id)].latest_version_id =
                            calls[c].new_version_id]
    /\ calls' = [calls EXCEPT ![c].pc = "insert_chat_message"]
    /\ UNCHANGED <<briefing_versions, briefing_chat>>
    /\ UNCHANGED <<builder_vars, evaluator_vars>>

\* The two insert_chat_message calls that end create_briefing and
\* handle_chat, each a transaction: the user's message on the version it
\* addressed, then the assistant's on the new version.
InsertChatMessage(c) ==
    /\ calls[c].pc \in {"insert_chat_message", "insert_reply"}
    /\ LET user == calls[c].pc = "insert_chat_message"
       IN  /\ briefing_chat' = briefing_chat \cup
                 {[id |-> <<c, calls[c].pc>>,
                   briefing_id |-> Get(calls[c].briefing_id),
                   role |-> IF user THEN "user" ELSE "assistant",
                   version_id |->
                       IF user /\ calls[c].op = "handle_chat"
                       THEN calls[c].version_id
                       ELSE calls[c].new_version_id]}
           /\ calls' = [calls EXCEPT
                           ![c].pc = IF user THEN "insert_reply" ELSE "done"]
    /\ UNCHANGED <<briefings, briefing_versions>>
    /\ UNCHANGED <<builder_vars, evaluator_vars>>

NextBriefings ==
    \/ StartCreateBriefing
    \/ StartHandleChat
    \/ \E c \in 1..Len(calls) :
          \/ InsertBriefing(c)
          \/ ReadBriefing(c)
          \/ ReadVersion(c)
          \/ ReadNextVersionNumber(c)
          \/ InsertVersion(c)
          \/ UpdateLatestVersion(c)
          \/ InsertChatMessage(c)

SpecBriefings == InitBriefings /\ [][NextBriefings]_vars

-----------------------------------------------------------------------------
(* Properties.  Shared vocabulary first. *)

Called == request # None

Returned == Called /\ ~pack.raised

Req == Get(request)

\* build_data_pack with the arguments of the last call, on the given tables
\* and clock.
Rebuild(ons, oecd, clk) ==
    BuildDataPack(Req.topic, Req.selected_series, Req.options,
                  economic_data_sources, ons, oecd, clk)

ConfigOf(selection) ==
    FindBySource(economic_data_sources, selection.source,
                 selection.source_series_id)

IsResolved(selection) ==
    /\ ~IsNone(ConfigOf(selection))
    /\ Get(ConfigOf(selection)).provider \in {"ONS", "OECD"}

\* The selections of the last call that resolve, in input order.
ResolvedSelections == SelectSeq(Req.selected_series, IsResolved)

FrequencyOf(selection) == DetermineFrequency(Get(ConfigOf(selection))).value

\* The rows the last call fetched for a resolved selection, newest label first.
Fetched(selection) ==
    FetchRows(Get(ConfigOf(selection)), selection,
              FetchLimit(LookbackOf(Req.options)),
              ons_economic_series, oecd_economic_series)

\* All stored rows of the series of a resolved selection.
Stored(selection) ==
    FetchRows(Get(ConfigOf(selection)), selection,
              Cardinality(ons_economic_series) + Cardinality(oecd_economic_series),
              ons_economic_series, oecd_economic_series)

Parses(row) == ~IsNone(ParsePeriod(row.period_label, called_at.today))

IsNumber(row) == ~IsNone(ToFloat(row.value))

\* Fetched rows with a period (period-bearing), and those that also have a
\* value (the valid points), newest first.
PeriodBearing(selection) == SelectSeq(Fetched(selection), Parses)

ValidPoints(selection) ==
    SelectSeq(Fetched(selection), LAMBDA row : Parses(row) /\ IsNumber(row))

ValidValues(selection) ==
    LET points == ValidPoints(selection)
    IN  [i \in 1..Len(points) |-> Get(ToFloat(points[i].value))]

\* Payload i of a returned pack belongs to resolved selection i.
PayloadIndexes == 1..Min2(Len(pack.series), Len(ResolvedSelections))

WithoutPulledAt(payloads) ==
    [i \in 1..Len(payloads) |->
        [payloads[i] EXCEPT !.provenance.pulled_at = <<>>]]

HasLimitation(limitation) ==
    \E i \in 1..Len(pack.data_limitations) : pack.data_limitations[i] = limitation

-----------------------------------------------------------------------------
\* C1: data_pack_hash excludes the pulled_at timestamp: a second
\* build_data_pack call with the same arguments and tables, whose series
\* payloads differ from the first call's only in provenance.pulled_at,
\* returns the same data_pack_hash.
C1_HashExcludesPulledAt ==
    Returned =>
        LET again == Rebuild(ons_economic_series, oecd_economic_series, clock)
        IN  (/\ ~again.raised
             /\ WithoutPulledAt(again.series) = WithoutPulledAt(pack.series))
            => again.data_pack_hash = pack.data_pack_hash

-----------------------------------------------------------------------------
\* The table with the value of one row replaced.
WithValue(table, row, value) ==
    (table \ {row}) \cup {[row EXCEPT !.value = value]}

\* A stored value that differs from the row's by the smallest step.
OtherValue(row) ==
    IF IsNumber(row) THEN Numeric(Get(row.value).v + 1) ELSE Numeric(98 * FixedScale)

\* The hash of the last call had the value of one row been another.
HashWithValue(row, value) ==
    (IF row \in ons_economic_series
     THEN Rebuild(WithValue(ons_economic_series, row, value),
                  oecd_economic_series, called_at)
     ELSE Rebuild(ons_economic_series,
                  WithValue(oecd_economic_series, row, value), called_at)
    ).data_pack_hash

RowsOf(rows) == {rows[i] : i \in 1..Len(rows)}

\* The rows behind the entries of a payload's observations list: the rows
\* with a period among the first lookback_periods fetched.
Listed(selection) ==
    {row \in RowsOf(Prefix(Fetched(selection), LookbackOf(Req.options))) :
        Parses(row)}

\* C2 as stated: changing the value of any stored observation of a resolved
\* series changes the data_pack_hash.
C2_AnyStoredValueChangesHash ==
    (Returned /\ called_at = clock) =>
        \A i \in 1..Len(ResolvedSelections) :
            \A row \in RowsOf(Stored(ResolvedSelections[i])) :
                HashWithValue(row, OtherValue(row)) # pack.data_pack_hash

\* C2 amended: for a call that returned a pack, changing the value of an
\* observation that appears in a payload's observations list (a row with a
\* parsed period among the first lookback_periods fetched rows) changes the
\* data_pack_hash.
C2_ListedValueChangesHash ==
    (Returned /\ called_at = clock) =>
        \A i \in 1..Len(ResolvedSelections) :
            \A row \in Listed(ResolvedSelections[i]) :
                /\ HashWithValue(row, OtherValue(row)) # pack.data_pack_hash
                /\ HashWithValue(row, None) # pack.data_pack_hash
                   \/ ~IsNumber(row)

\* A pack was returned whose payload lists a row, while the series holds
\* more rows than the list shows.
C2_Witness ==
    /\ Returned
    /\ \E i \in PayloadIndexes :
          /\ Listed(ResolvedSelections[i]) # {}
          /\ Len(pack.series[i].observations) < Len(Stored(ResolvedSelections[i]))

-----------------------------------------------------------------------------
\* C3: a fetched observation whose label does not parse (period None) and
\* whose value is a number is not fatal: build_data_pack returns, and the
\* derived statistics equal those computed with that row removed.
C3_NullPeriodNonFatal ==
    Called =>
        \A i \in 1..Len(ResolvedSelections) :
            \A row \in RowsOf(Fetched(ResolvedSelections[i])) :
                (~Parses(row) /\ IsNumber(row)) =>
                    LET without == Rebuild(ons_economic_series \ {row},
                                           oecd_economic_series \ {row},
                                           called_at)
                    IN  /\ ~pack.raised
                        /\ ~without.raised
                        /\ \A j \in PayloadIndexes :
                              pack.series[j].derived = without.series[j].derived

-----------------------------------------------------------------------------
\* C4: quality floor.  A payload whose series has fewer than 3 period-bearing
\* fetched entries (zero included) has quality_status red, whatever the
\* freshness and missing-values checks say; with 1 or 2 such entries the
\* limitation "Insufficient lookback window to compute deltas." is recorded.
C4_QualityFloor ==
    Returned =>
        \A i \in PayloadIndexes :
            LET n == Len(PeriodBearing(ResolvedSelections[i]))
            IN  /\ n < 3 => pack.series[i].quality_status = "red"
                /\ n \in {1, 2} => HasLimitation(InsufficientLookback)

\* A series with one or two period-bearing entries, all checks passing, red.
C4_Witness ==
    /\ Returned
    /\ \E i \in PayloadIndexes :
          /\ Len(PeriodBearing(ResolvedSelections[i])) \in {1, 2}
          /\ \A k \in 1..Len(pack.series[i].quality_checks) :
                pack.series[i].quality_checks[k].ok
          /\ pack.series[i].quality_status = "red"

-----------------------------------------------------------------------------
StatusSet == {pack.series[i].quality_status : i \in 1..Len(pack.series)}

\* C5: the pack's quality.status is the worst status among the emitted
\* payloads (red, else amber, else green); a pack without payloads is green
\* while its single coverage check has ok = FALSE.
C5_AggregateIsWorst ==
    Returned =>
        /\ pack.quality.status =
              (IF "red" \in StatusSet THEN "red"
               ELSE IF "amber" \in StatusSet THEN "amber" ELSE "green")
        /\ pack.series = <<>> =>
              /\ pack.quality.status = "green"
              /\ Len(pack.quality.checks) = 1
              /\ pack.quality.checks[1].name = "coverage"
              /\ ~pack.quality.checks[1].ok

\* A pack with a red and an amber payload, and aggregate status red.
C5_Witness ==
    /\ Returned
    /\ {"red", "amber"} \subseteq StatusSet
    /\ pack.quality.status = "red"

\* A pack without payloads: green, coverage failing.
C5_WitnessEmpty ==
    /\ Returned
    /\ pack.series = <<>>
    /\ pack.quality.status = "green"
    /\ ~pack.quality.checks[1].ok

-----------------------------------------------------------------------------
\* build_data_pack with the other arguments of the last call, at its clock.
BuildOf(selected_series) ==
    BuildDataPack(Req.topic, selected_series, Req.options,
                  economic_data_sources, ons_economic_series,
                  oecd_economic_series, called_at)

SkipLimitation(selection) ==
    IF IsNone(ConfigOf(selection)) THEN NotConfigured(selection)
    ELSE NotSupported(Get(ConfigOf(selection)).provider)

\* C6: a selection whose configuration is not found (or whose provider is
\* unsupported) is skipped, not fatal: the call behaves as the selections
\* before it followed by the selections after it, with exactly one
\* limitation for the skipped selection in between and no payload for it;
\* the call raises only if a selection before or after it does.
C6_UnresolvedSkipped ==
    Called =>
        LET sel == Req.selected_series
        IN  \A i \in 1..Len(sel) :
                ~IsResolved(sel[i]) =>
                    LET before == BuildOf(SubSeq(sel, 1, i - 1))
                        after == BuildOf(SubSeq(sel, i + 1, Len(sel)))
                    IN  /\ pack.raised = (before.raised \/ after.raised)
                        /\ ~pack.raised =>
                              /\ pack.series = before.series \o after.series
                              /\ pack.data_limitations =
                                    before.data_limitations
                                    \o <<SkipLimitation(sel[i])>>
                                    \o after.data_limitations

\* An unresolved selection was skipped and a later selection was emitted.
C6_Witness ==
    /\ Returned
    /\ \E i \in 1..Len(Req.selected_series) :
          /\ ~IsResolved(Req.selected_series[i])
          /\ HasLimitation(NotConfigured(Req.selected_series[i]))
          /\ \E j \in (i + 1)..Len(Req.selected_series) :
                /\ IsResolved(Req.selected_series[j])
                /\ pack.series[Len(pack.series)].source_series_id =
                      Req.selected_series[j].source_series_id

-----------------------------------------------------------------------------
\* C7: a selection that resolves but for which the store returns no rows is
\* still emitted: its payload has quality_status red, the single check
\* availability with ok = FALSE, an empty derived block, and the limitation
\* "No observations available." is in data_limitations.
C7_EmptyFetchIncluded ==
    Called =>
        \A i \in 1..Len(ResolvedSelections) :
            Fetched(ResolvedSelections[i]) = <<>> =>
                LET alone == BuildOf(<<ResolvedSelections[i]>>)
                IN  /\ ~alone.raised
                    /\ Len(alone.series) = 1
                    /\ alone.series[1].quality_status = "red"
                    /\ Len(alone.series[1].quality_checks) = 1
                    /\ alone.series[1].quality_checks[1].name = "availability"
                    /\ ~alone.series[1].quality_checks[1].ok
                    /\ alone.series[1].derived = EmptyStats
                    /\ alone.series[1].observations = <<>>
                    /\ alone.data_limitations = <<NoObservations>>
                    /\ Returned =>
                          /\ i \in PayloadIndexes
                          /\ pack.series[i] = alone.series[1]
                          /\ HasLimitation(NoObservations)

\* A returned pack holds the payload of a series without any fetched row.
C7_Witness ==
    /\ Returned
    /\ \E i \in PayloadIndexes :
          /\ Fetched(ResolvedSelections[i]) = <<>>
          /\ pack.series[i].quality_status = "red"
          /\ pack.series[i].quality_checks[1].name = "availability"

-----------------------------------------------------------------------------
\* Periods per year as the claims give them.
CycleOf(frequency) ==
    IF frequency = "M" THEN 12 ELSE IF frequency = "Q" THEN 4 ELSE 1

\* C8: with k periods per year (M 12, Q 4, A 1) a payload's derived block has
\* yoy_change exactly when the series has more than k valid points, and then
\* yoy_change is the latest value minus the value k positions before it; a
\* monthly series of 12 points has none, one of 13 points has latest - oldest.
C8_YoyBoundary ==
    Returned =>
        \A i \in PayloadIndexes :
            LET values == ValidValues(ResolvedSelections[i])
                k == CycleOf(pack.series[i].frequency)
                yoy == pack.series[i].derived.yoy_change
            IN  /\ IsNone(yoy) <=> Len(values) <= k
                /\ ~IsNone(yoy) => Get(yoy) = values[1] - values[k + 1]

\* A monthly series of exactly 13 valid points: yoy_change = latest - oldest.
C8_Witness ==
    /\ Returned
    /\ \E i \in PayloadIndexes :
          LET values == ValidValues(ResolvedSelections[i])
          IN  /\ pack.series[i].frequency = "M"
              /\ Len(values) = 13
              /\ pack.series[i].derived.yoy_change = Some(values[1] - values[13])

\* A monthly series of exactly 12 valid points has no yoy_change.
C8_WitnessTwelve ==
    /\ Returned
    /\ \E i \in PayloadIndexes :
          /\ pack.series[i].frequency = "M"
          /\ Len(ValidValues(ResolvedSelections[i])) = 12
          /\ IsNone(pack.series[i].derived.yoy_change)

-----------------------------------------------------------------------------
Point(y, m, v) == [period |-> Some(MkDate(y, m, 1)), value |-> Some(v)]

\* C9: rolling_3m_avg is present exactly when at least 3 valid points exist
\* and is the mean of the 3 latest values (10, 20, 30 give 20; 2 points give
\* no field); rolling_12m_avg is present exactly when at least
\* periods-per-year valid points exist and is the mean of the latest
\* periods-per-year values.
C9_RollingBoundaries ==
    /\ DeriveStats(<<Point(2024, 1, 10 * FixedScale), Point(2024, 2, 20 * FixedScale),
                     Point(2024, 3, 30 * FixedScale)>>, "M").rolling_3m_avg
          = Some(20 * FixedScale)
    /\ DeriveStats(<<Point(2024, 1, 10 * FixedScale),
                     Point(2024, 2, 20 * FixedScale)>>, "M").rolling_3m_avg = None
    /\ Returned =>
        \A i \in PayloadIndexes :
            LET values == ValidValues(ResolvedSelections[i])
                k == CycleOf(pack.series[i].frequency)
                avg3 == pack.series[i].derived.rolling_3m_avg
                avg12 == pack.series[i].derived.rolling_12m_avg
            IN  /\ ~IsNone(avg3) <=> Len(values) >= 3
                /\ ~IsNone(avg3) =>
                      Get(avg3) = RoundDiv(values[1] + values[2] + values[3], 3)
                /\ ~IsNone(avg12) <=> Len(values) >= k
                /\ ~IsNone(avg12) =>
                      Get(avg12) = RoundDiv(SumSeq(SubSeq(values, 1, k)), k)

\* A payload with exactly periods-per-year valid points (at least 3):
\* both averages present, yoy_change absent.
C9_Witness ==
    /\ Returned
    /\ \E i \in PayloadIndexes :
          LET values == ValidValues(ResolvedSelections[i])
          IN  /\ Len(values) = CycleOf(pack.series[i].frequency)
              /\ Len(values) >= 3
              /\ ~IsNone(pack.series[i].derived.rolling_3m_avg)
              /\ ~IsNone(pack.series[i].derived.rolling_12m_avg)

-----------------------------------------------------------------------------
ListedEntry(row) ==
    [period_start |-> IsoFormat(Get(ParsePeriod(row.period_label, called_at.today))),
     value |-> ToFloat(row.value)]

-----------------------------------------------------------------------------
\* The stored observations of a resolved selection that have both a period
\* and a numeric value.
StoredValid(selection) ==
    SelectSeq(Stored(selection), LAMBDA row : Parses(row) /\ IsNumber(row))

\* C11: the fetch limit max(lookback_periods + 4, 12) leaves enough history:
\* whenever the store holds at least periods-per-year + 1 valid observations
\* of a series, the payload's derived block has yoy_change, rolling_3m_avg
\* and rolling_12m_avg.
C11_FetchLimitSuffices ==
    Returned =>
        \A i \in PayloadIndexes :
            Len(StoredValid(ResolvedSelections[i]))
                    >= CycleOf(pack.series[i].frequency) + 1
                => /\ ~IsNone(pack.series[i].derived.yoy_change)
                   /\ ~IsNone(pack.series[i].derived.rolling_3m_avg)
                   /\ ~IsNone(pack.series[i].derived.rolling_12m_avg)

-----------------------------------------------------------------------------
\* The named check of a payload failed.
CheckFailed(payload, name) ==
    \E k \in 1..Len(payload.quality_checks) :
        /\ payload.quality_checks[k].name = name
        /\ ~payload.quality_checks[k].ok

\* C12: the status of a series is determined by its depth and its checks:
\* with n period-bearing entries it is red when n < 3, amber when n >= 3 and
\* the freshness or the missing_values check failed, green when n >= 3 and
\* both passed; it is always one of green, amber, red.
C12_StatusByDepthAndChecks ==
    Returned =>
        \A i \in PayloadIndexes :
            LET n == Len(PeriodBearing(ResolvedSelections[i]))
                failed == \/ CheckFailed(pack.series[i], "freshness")
                          \/ CheckFailed(pack.series[i], "missing_values")
            IN  /\ pack.series[i].quality_status \in {"green", "amber", "red"}
                /\ pack.series[i].quality_status =
                      (IF n < 3 THEN "red"
                       ELSE IF failed THEN "amber" ELSE "green")

\* A fresh series of three or more entries with a missing value: amber.
C12_Witness ==
    /\ Returned
    /\ \E i \in PayloadIndexes :
          /\ Len(PeriodBearing(ResolvedSelections[i])) >= 3
          /\ ~CheckFailed(pack.series[i], "freshness")
          /\ CheckFailed(pack.series[i], "missing_values")
          /\ pack.series[i].quality_status = "amber"

-----------------------------------------------------------------------------
\* The fetched rows of a resolved selection that have a period and no
\* numeric value, oldest period first.
MissingAscending(selection) ==
    LET missing == SelectSeq(PeriodBearing(selection), LAMBDA row : ~IsNumber(row))
    IN  [j \in 1..Len(missing) |-> missing[Len(missing) + 1 - j]]

PeriodOf(row) == IsoFormat(Get(ParsePeriod(row.period_label, called_at.today)))

\* The "Missing values for ..." limitations of the pack.
MissingLimitations ==
    SelectSeq(pack.data_limitations,
              LAMBDA limitation : limitation.text = "Missing values for")

\* C13: a series with missing values gets one limitation that lists the
\* periods of its first 5 missing entries in ascending period order and never
\* more than 5, while the missing_values check reports the full count.
C13_MissingTruncated ==
    Returned =>
        /\ \A i \in PayloadIndexes :
              LET missing == MissingAscending(ResolvedSelections[i])
                  listed == [j \in 1..Min2(5, Len(missing)) |-> PeriodOf(missing[j])]
                  checks == pack.series[i].quality_checks
              IN  /\ missing # <<>> => HasLimitation(MissingValuesFor(listed))
                  /\ \A k \in 1..Len(checks) :
                        checks[k].name = "missing_values" =>
                            /\ checks[k].detail.missing = Len(missing)
                            /\ checks[k].detail.total =
                                  Len(PeriodBearing(ResolvedSelections[i]))
        /\ Len(MissingLimitations) =
              Cardinality({i \in PayloadIndexes :
                              MissingAscending(ResolvedSelections[i]) # <<>>})
        /\ \A k \in 1..Len(MissingLimitations) :
              Len(MissingLimitations[k].periods) \in 1..5

\* Seven missing periods: the check counts 7, the limitation lists 5.
C13_Witness ==
    /\ Returned
    /\ \E i \in PayloadIndexes :
          /\ Len(MissingAscending(ResolvedSelections[i])) = 7
          /\ CheckFailed(pack.series[i], "missing_values")
          /\ Len(MissingLimitations) = 1
          /\ Len(MissingLimitations[1].periods) = 5

-----------------------------------------------------------------------------
\* The fetched rows of a resolved selection whose value is absent or is not
\* convertible to a number.
Malformed(selection) == SelectSeq(Fetched(selection), LAMBDA row : ~IsNumber(row))

\* C14: a fetched row whose value is absent or not a number never makes the
\* call raise: the call returns, the row counts as missing when its period
\* parses, and the derived statistics are those of the other rows.
C14_MalformedValuesNull ==
    Called =>
        \A i \in 1..Len(ResolvedSelections) :
            LET selection == ResolvedSelections[i]
                checks == pack.series[i].quality_checks
            IN  Malformed(selection) # <<>> =>
                    /\ ~pack.raised
                    /\ i <= Len(pack.series)
                    /\ \A k \in 1..Len(checks) :
                          checks[k].name = "missing_values" =>
                              checks[k].detail.missing =
                                  Len(SelectSeq(Malformed(selection), Parses))
                    /\ pack.series[i].derived =
                          DeriveStats(
                              Observations(SelectSeq(Fetched(selection), IsNumber),
                                           called_at.today),
                              FrequencyOf(selection))

-----------------------------------------------------------------------------
\* C15: a returned pack without series says why: whenever the series list of
\* the returned pack is empty (the selection list being empty included),
\* data_limitations is not empty.
C15_EmptyPackExplained ==
    (Returned /\ pack.series = <<>>) => pack.data_limitations # <<>>

-----------------------------------------------------------------------------
\* The payload is the one the resolved selection produces.
PayloadOf(payload, selection) ==
    /\ payload.source_series_id = selection.source_series_id
    /\ payload.source = Get(ConfigOf(selection)).provider
    /\ payload.series_key = OrElse(selection.alias, Get(ConfigOf(selection)).slug)

\* C16: the series list of a returned pack is the selection list without the
\* skipped selections, in the same relative order, one payload per resolved
\* selection.
C16_PayloadOrder ==
    Returned =>
        /\ Len(pack.series) = Len(ResolvedSelections)
        /\ \A i \in 1..Len(pack.series) :
              PayloadOf(pack.series[i], ResolvedSelections[i])

\* Two resolved selections around a skipped one, in input order.
C16_Witness ==
    /\ Returned
    /\ Len(Req.selected_series) = 3
    /\ Len(pack.series) = 2
    /\ PayloadOf(pack.series[1], Req.selected_series[1])
    /\ PayloadOf(pack.series[2], Req.selected_series[3])
    /\ ~PayloadOf(pack.series[1], Req.selected_series[3])

-----------------------------------------------------------------------------
\* The latest period among the period-bearing fetched rows of a selection.
LatestPeriod(selection) ==
    LET bearing == PeriodBearing(selection)
        periods == {Get(ParsePeriod(bearing[k].period_label, called_at.today))
                       : k \in 1..Len(bearing)}
    IN  CHOOSE latest \in periods : \A other \in periods : ~DateLess(latest, other)

\* Days from the latest period of a selection to the day of the call.
AgeInDays(selection) == DaysBetween(called_at.today, LatestPeriod(selection))

\* The staleness limitations of the pack.
StaleLimitations ==
    SelectSeq(pack.data_limitations, LAMBDA limitation : limitation = StaleData)

\* C17: the freshness check has ok = TRUE exactly when the latest period is at
\* most 40 days old for frequency M and at most 120 days old for any other
\* frequency; every series whose check fails adds one staleness limitation.
C17_FreshnessTolerance ==
    Returned =>
        /\ \A i \in PayloadIndexes :
              PeriodBearing(ResolvedSelections[i]) # <<>> =>
                  LET age == AgeInDays(ResolvedSelections[i])
                      checks == pack.series[i].quality_checks
                  IN  /\ checks[1].name = "freshness"
                      /\ checks[1].ok <=>
                            (IF pack.series[i].frequency = "M" THEN age <= 40
                             ELSE age <= 120)
        /\ Len(StaleLimitations) =
              Cardinality({i \in PayloadIndexes :
                              CheckFailed(pack.series[i], "freshness")})

\* A monthly series exactly 40 days old is fresh.
C17_Witness ==
    /\ Returned
    /\ \E i \in PayloadIndexes :
          /\ PeriodBearing(ResolvedSelections[i]) # <<>>
          /\ pack.series[i].frequency = "M"
          /\ AgeInDays(ResolvedSelections[i]) = 40
          /\ pack.series[i].quality_checks[1].name = "freshness"
          /\ pack.series[i].quality_checks[1].ok

\* A quarterly series 121 days old is stale and says so once.
C17_WitnessStale ==
    /\ Returned
    /\ Len(pack.series) = 1
    /\ PeriodBearing(ResolvedSelections[1]) # <<>>
    /\ pack.series[1].frequency = "Q"
    /\ AgeInDays(ResolvedSelections[1]) = 121
    /\ CheckFailed(pack.series[1], "freshness")
    /\ Len(StaleLimitations) = 1

-----------------------------------------------------------------------------
\* The scenario of C18 for a resolved selection of the last call: a monthly
\* ONS configuration, 14 fetched observations, none null, values increasing
\* with the period, the latest period in the month of the call.
FourteenFreshMonths(selection) ==
    /\ Get(ConfigOf(selection)).provider = "ONS"
    /\ FrequencyOf(selection) = "M"
    /\ Len(Fetched(selection)) = 14
    /\ LET values == ValidValues(selection)
       IN  /\ Len(values) = 14
           /\ \A k \in 1..13 : values[k] > values[k + 1]
    /\ LatestPeriod(selection).y = called_at.today.y
    /\ LatestPeriod(selection).m = called_at.today.m

\* C18: end to end, with the default lookback such a series has mom_change,
\* yoy_change equal to the latest minus the second-oldest value,
\* rolling_12m_avg, and quality_status green; a pack of that series alone has
\* aggregate status green.
C18_EndToEnd ==
    (Returned /\ IsNone(Req.options.lookback_periods)) =>
        \A i \in PayloadIndexes :
            FourteenFreshMonths(ResolvedSelections[i]) =>
                LET values == ValidValues(ResolvedSelections[i])
                    derived == pack.series[i].derived
                IN  /\ derived.mom_change = Some(values[1] - values[2])
                    /\ derived.yoy_change = Some(values[1] - values[13])
                    /\ ~IsNone(derived.rolling_12m_avg)
                    /\ pack.series[i].quality_status = "green"
                    /\ Len(pack.series) = 1 => pack.quality.status = "green"

\* The scenario as the only selection of a returned call.
C18_Witness ==
    /\ Returned
    /\ IsNone(Req.options.lookback_periods)
    /\ Len(Req.selected_series) = 1
    /\ Len(pack.series) = 1
    /\ FourteenFreshMonths(ResolvedSelections[1])
    /\ ~IsNone(pack.series[1].derived.yoy_change)
    /\ pack.quality.status = "green"

-----------------------------------------------------------------------------
\* C19: a label "YYYY-MM" parses to the first day of its month whatever the
\* day of the call, the same date its label "YYYY-MM-01" parses to; so every
\* period the call derives from such labels is a first of the month.
C19_YearMonthIsFirst ==
    Returned =>
        \A i \in PayloadIndexes :
            /\ \A row \in RowsOf(Fetched(ResolvedSelections[i])) :
                  LET label == row.period_label
                  IN  label.kind = "ym" =>
                          /\ ParsePeriod(label, called_at.today)
                                = Some(MkDate(label.y, label.m, 1))
                          /\ ParsePeriod(label, called_at.today)
                                = ParsePeriod(IsoLabel(label.y, label.m, 1),
                                              called_at.today)
            /\ \A k \in 1..Len(pack.series[i].observations) :
                  pack.series[i].observations[k].period_start[3] = 1

-----------------------------------------------------------------------------
\* The as_of options callers send.
AsOfValues == {options.as_of : options \in OptionsSet}

\* build_data_pack with the arguments of the last call except options.as_of,
\* on the same tables and clock.
WithAsOf(as_of) ==
    BuildDataPack(Req.topic, Req.selected_series,
                  [Req.options EXCEPT !.as_of = as_of],
                  economic_data_sources, ons_economic_series,
                  oecd_economic_series, called_at)

\* C20: options.as_of does not enter the hash: a call that differs from the
\* last one only in options.as_of returns the same data_pack_hash and a
\* different as_of field.
C20_AsOfNotHashed ==
    Returned =>
        \A as_of \in AsOfValues \ {Req.options.as_of} :
            /\ ~WithAsOf(as_of).raised
            /\ WithAsOf(as_of).data_pack_hash = pack.data_pack_hash
            /\ WithAsOf(as_of).as_of # pack.as_of

\* A pack with a payload built for an as_of date; the default as_of gives
\* the same hash.
C20_Witness ==
    /\ Returned
    /\ pack.series # <<>>
    /\ pack.as_of = "2024-01-31"
    /\ WithAsOf(None).as_of = "latest"
    /\ WithAsOf(None).data_pack_hash = pack.data_pack_hash

\* C21: with the clock frozen, a repeated build_data_pack call with the same
\* topic, selections and options on the same configuration records and the
\* same stored observations returns the same data_pack_hash and the same
\* series payloads as the call before it.
C21_Determinism ==
    [][(request # None /\ request' = request /\ called_at' = called_at)
          => (/\ pack'.raised = pack.raised
              /\ pack'.data_pack_hash = pack.data_pack_hash
              /\ pack'.series = pack.series)]_vars

-----------------------------------------------------------------------------
\* C22: the payload emitted for a resolved selection is the payload that
\* build_data_pack emits when called, on the same tables and clock, with that
\* selection alone: the other selections of the list, their number and their
\* order, do not change it.
C22_SeriesIndependent ==
    Returned =>
        \A i \in PayloadIndexes :
            LET alone == BuildOf(<<ResolvedSelections[i]>>)
            IN  /\ ~alone.raised
                /\ alone.series = <<pack.series[i]>>

\* Two payloads with different verdicts in one pack, around a skipped
\* selection.
C22_Witness ==
    /\ Returned
    /\ Len(Req.selected_series) = 3
    /\ Len(pack.series) = 2
    /\ pack.series[1].quality_status = "red"
    /\ pack.series[2].quality_status = "green"
    /\ BuildOf(<<Req.selected_series[3]>>).series = <<pack.series[2]>>

-----------------------------------------------------------------------------
\* The entries have periods, no two the same.
DistinctPeriods(observations) ==
    /\ \A i \in 1..Len(observations) : HasPeriod(observations[i])
    /\ \A i, j \in 1..Len(observations) :
          observations[i].period = observations[j].period => i = j

\* The orders a sequence of n entries can be stored in.
StorageOrders(n) ==
    {order \in [1..n -> 1..n] : \A i, j \in 1..n : order[i] = order[j] => i = j}

Reordered(observations, order) ==
    [i \in 1..Len(observations) |-> observations[order[i]]]

\* C23: for observations with pairwise distinct non-null periods,
\* _derive_stats and _quality_checks return for every permutation of the
\* input sequence the result they returned for the sequence itself.
C23_OrderIrrelevant ==
    LET observations == Get(entries).observations
        frequency == Get(entries).frequency
    IN  (~IsNone(entries) /\ DistinctPeriods(observations)) =>
            \A order \in StorageOrders(Len(observations)) :
                LET stored == Reordered(observations, order)
                IN  /\ ~IsNone(evaluation.derived) =>
                          DeriveStats(stored, frequency) = Get(evaluation.derived)
                    /\ ~IsNone(evaluation.quality) =>
                          QualityChecks(stored, frequency, clock.today)
                              = Get(evaluation.quality)

\* Four entries stored newest first, one without a value, both functions
\* called.
C23_Witness ==
    /\ ~IsNone(entries)
    /\ Len(Get(entries).observations) = MaxEntries
    /\ DistinctPeriods(Get(entries).observations)
    /\ \A i \in 1..(MaxEntries - 1) :
          DateLess(Get(Get(entries).observations[i + 1].period),
                   Get(Get(entries).observations[i].period))
    /\ ~IsNone(evaluation.derived)
    /\ ~IsNone(Get(evaluation.derived).mom_change)
    /\ ~IsNone(evaluation.quality)
    /\ Get(evaluation.quality).checks[2].detail.missing = 1

-----------------------------------------------------------------------------
\* The positions of the entries that have a period.
Dated(observations) ==
    {i \in 1..Len(observations) : HasPeriod(observations[i])}

\* C24: _quality_checks returns for a sequence the status, checks and
\* limitations it returns for the sequence without its null-period entries;
\* the status is red exactly when fewer than 3 entries have a period, and the
\* missing_values check counts the entries with a period (total) and, of
\* those, the ones without a value (missing).
C24_NullPeriodsInvisible ==
    (~IsNone(entries) /\ ~IsNone(evaluation.quality)) =>
        LET observations == Get(entries).observations
            quality == Get(evaluation.quality)
            dated == Dated(observations)
        IN  /\ quality = QualityChecks(SelectSeq(observations, HasPeriod),
                                       Get(entries).frequency, clock.today)
            /\ (quality.status = "red") = (Cardinality(dated) < MinDepth)
            /\ dated # {} =>
                  /\ quality.checks[2].detail.total = Cardinality(dated)
                  /\ quality.checks[2].detail.missing =
                        Cardinality({i \in dated : ~HasValue(observations[i])})

\* Three dated entries with values and a null-period entry without one: the
\* verdict is not red and nothing is counted missing.
C24_Witness ==
    /\ ~IsNone(entries)
    /\ ~IsNone(evaluation.quality)
    /\ Len(Get(entries).observations) = 4
    /\ Cardinality(Dated(Get(entries).observations)) = 3
    /\ \E i \in 1..4 : /\ ~HasPeriod(Get(entries).observations[i])
                       /\ ~HasValue(Get(entries).observations[i])
    /\ Get(evaluation.quality).status # "red"
    /\ Get(evaluation.quality).checks[2].ok
    /\ Get(evaluation.quality).checks[2].detail.total = 3

-----------------------------------------------------------------------------
\* The configuration rows the lookups of the last call can return.
LookedUp ==
    {row \in economic_data_sources :
        \E i \in 1..Len(Req.selected_series) :
            MatchesSource(row, Upper(Req.selected_series[i].source),
                          Req.selected_series[i].source_series_id)}

\* The frequency a configuration row configures, "" when none: the column,
\* or else the frequency kept in the metadata column.
ConfiguredFrequency(row) ==
    IF row.frequency # "" THEN row.frequency
    ELSE IF IsNone(row.metadata) THEN ""
    ELSE Get(row.metadata).frequency

\* The configuration row a payload was made of (its name is the row's slug).
ConfigBehind(payload) ==
    CHOOSE row \in economic_data_sources : row.slug = payload.name

\* C25: a call whose selections resolve does not raise, whatever the
\* frequency and metadata fields of the configuration rows hold (a null
\* frequency with a null metadata included); each payload carries the
\* configured frequency in upper case, "M" when none is configured; and for
\* a frequency other than M, Q and A the windows are those of 12 periods per
\* year: yoy_change needs more than 12 values, rolling_12m_avg at least 12.
C25_FrequencyFallback ==
    (Called /\ LookedUp # {}) =>
        /\ ~pack.raised
        /\ \A i \in 1..Len(pack.series) :
              LET payload == pack.series[i]
                  configured == ConfiguredFrequency(ConfigBehind(payload))
                  dataset_id == OrElse(ResolvedSelections[i].dataset_id,
                                       ConfigBehind(payload).dataset_id)
                  n == Min2(Cardinality({row \in ons_economic_series :
                                            row.dataset_id = dataset_id}),
                            FetchLimit(pack.lookback_periods))
              IN  /\ payload.frequency =
                        (IF configured = "" THEN "M" ELSE Upper(configured))
                  /\ payload.frequency \notin {"M", "Q", "A"} =>
                        /\ ~IsNone(payload.derived.yoy_change) = (n > 12)
                        /\ ~IsNone(payload.derived.rolling_12m_avg) = (n >= 12)

\* The same for registries in which no row has both fields null.
C25_Guarded ==
    (\A row \in economic_data_sources :
        ~(row.frequency = "" /\ IsNone(row.metadata)))
    => C25_FrequencyFallback

-----------------------------------------------------------------------------
\* C26: a payload with quality_status green has latest_value, mom_change and
\* rolling_3m_avg in its derived block, and its derived.latest_period is the
\* period the freshness check reports, the latest period among the fetched
\* entries that have one.
C26_GreenIsComplete ==
    Returned =>
        \A i \in PayloadIndexes :
            LET payload == pack.series[i]
            IN  payload.quality_status = "green" =>
                    /\ ~IsNone(payload.derived.latest_value)
                    /\ ~IsNone(payload.derived.mom_change)
                    /\ ~IsNone(payload.derived.rolling_3m_avg)
                    /\ payload.quality_checks[1].name = "freshness"
                    /\ payload.derived.latest_period =
                          Some(payload.quality_checks[1].detail.period)
                    /\ payload.derived.latest_period =
                          Some(IsoFormat(LatestPeriod(ResolvedSelections[i])))

\* A green payload at the floor: three fetched entries.
C26_Witness ==
    /\ Returned
    /\ \E i \in PayloadIndexes :
          /\ pack.series[i].quality_status = "green"
          /\ Len(Fetched(ResolvedSelections[i])) = MinDepth
          /\ ~IsNone(pack.series[i].derived.rolling_3m_avg)

-----------------------------------------------------------------------------
\* The limitations the quality evaluation of a resolved selection produces.
QualityLimitations(selection) ==
    QualityChecks(Observations(Fetched(selection), called_at.today),
                  FrequencyOf(selection), called_at.today).limitations

\* The limitations of a selection list, selection by selection.
RECURSIVE LimitationsInOrder(_)
LimitationsInOrder(selected_series) ==
    IF selected_series = <<>> THEN <<>>
    ELSE (IF IsResolved(Head(selected_series))
          THEN QualityLimitations(Head(selected_series))
          ELSE <<SkipLimitation(Head(selected_series))>>)
         \o LimitationsInOrder(Tail(selected_series))

\* C27: in a returned pack whose quality.status is amber or red the
\* data_limitations list is not empty, and data_limitations holds, in
\* selection order, the limitations of each series' quality evaluation (and
\* the limitation of each skipped selection at its place).
C27_NonGreenExplained ==
    Returned =>
        /\ pack.quality.status \in {"amber", "red"} => pack.data_limitations # <<>>
        /\ pack.data_limitations = LimitationsInOrder(Req.selected_series)

\* An amber pack of two stale series around a skipped selection.
C27_Witness ==
    /\ Returned
    /\ pack.quality.status = "amber"
    /\ Len(Req.selected_series) = 3
    /\ Len(pack.data_limitations) = 3
    /\ pack.data_limitations[1] = StaleData
    /\ pack.data_limitations[2] = SkipLimitation(Req.selected_series[2])
    /\ pack.data_limitations[3] = StaleData

-----------------------------------------------------------------------------
\* The version numbers stored for a briefing.
VersionNumbers(briefing_id) ==
    {briefing_versions[v].version_number :
        v \in VersionsOf(briefing_versions, briefing_id)}

\* C28: whatever the interleaving of the insert_version calls on a briefing,
\* no two stored versions of the briefing have the same version_number, and
\* the numbers of its n versions are exactly 1..n.
C28_VersionNumbersUnique ==
    \A b \in 1..Len(briefings) :
        LET ids == VersionsOf(briefing_versions, b)
        IN  /\ \A v, w \in ids :
                  briefing_versions[v].version_number
                      = briefing_versions[w].version_number => v = w
            /\ VersionNumbers(b) = 1..Cardinality(ids)

-----------------------------------------------------------------------------
\* No create_briefing or handle_chat call is in progress.
Quiescent == \A c \in 1..Len(calls) : ~InProgress(calls[c])

\* C29: when no create_briefing or handle_chat call is in progress, the
\* latest_version_id of a briefing that has versions is the id of its
\* version with the highest version_number.
C29_LatestIsNewest ==
    Quiescent =>
        \A b \in 1..Len(briefings) :
            LET ids == VersionsOf(briefing_versions, b)
                latest == briefings[b].latest_version_id
            IN  ids # {} =>
                    /\ ~IsNone(latest)
                    /\ Get(latest) \in ids
                    /\ \A w \in ids \ {Get(latest)} :
                          briefing_versions[w].version_number
                              < briefing_versions[Get(latest)].version_number

-----------------------------------------------------------------------------
\* Every version a handle_chat call has inserted holds the data_pack and
\* input_spec of the version the call was derived from, a version of the
\* same briefing; every version of a briefing holds the data_pack that its
\* create_briefing call built and the request of that call.
Grounded ==
    \A c \in 1..Len(calls) :
        ~IsNone(calls[c].new_version_id) =>
            LET new == briefing_versions[Get(calls[c].new_version_id)]
            IN  IF calls[c].op = "handle_chat"
                THEN LET base == briefing_versions[Get(calls[c].version_id)]
                     IN  /\ base.briefing_id = new.briefing_id
                         /\ new.data_pack = base.data_pack
                         /\ new.input_spec = base.input_spec
                ELSE \A v \in VersionsOf(briefing_versions, new.briefing_id) :
                        /\ briefing_versions[v].data_pack = Get(calls[c].data_pack)
                        /\ briefing_versions[v].input_spec = calls[c].request

\* C30: every step of create_briefing and handle_chat leaves the versions
\* grounded (a version made by handle_chat stores the data_pack and
\* input_spec of its base version, so all versions of a briefing carry the
\* data_pack built at creation) and changes no version that exists.
C30_GroundingKept ==
    [][/\ Grounded'
       /\ Len(briefing_versions') >= Len(briefing_versions)
       /\ \A v \in 1..Len(briefing_versions) :
             briefing_versions'[v] = briefing_versions[v]]_vars

\* An edit of an older version, finished: the third version of a briefing,
\* derived from its first, with the content the model returned, beside
\* nothing but versions of that briefing.
C30_Witness ==
    \E c \in 1..Len(calls) :
        /\ calls[c].op = "handle_chat"
        /\ calls[c].pc = "done"
        /\ briefing_versions[Get(calls[c].version_id)].version_number = 1
        /\ briefing_versions[Get(calls[c].new_version_id)].version_number = 3
        /\ briefing_versions[Get(calls[c].new_version_id)].content_json = Edited
        /\ briefing_versions[Get(calls[c].new_version_id)].data_pack
              = briefing_versions[Get(calls[c].version_id)].data_pack

====
